---- MODULE Spec2Model ----
(***************************************************************************)
(* Model of src/main.rs: the per-frame system ui_example_system, the       *)
(* Painting widget (ui_control / ui_content) and the UiState it mutates.   *)
(* One step of the model is one frame; the frame's widget responses        *)
(* (clicks, slider drag, pointer over the canvas) are its inputs.          *)
(* Left out: UiState.label and egui_texture_handle, the "Add Entity"       *)
(* button and the Quit menu entry, the 3D scene and its systems.           *)
(* f32 values are modelled by integers, which f32 holds exactly in the     *)
(* ranges used here.                                                       *)
(***************************************************************************)
EXTENDS Integers, Sequences, FiniteSets, TLC

VARIABLES
    lines,                \* Painting.lines : Vec<Vec<Vec2>>
    stroke,               \* Painting.stroke
    value,                \* UiState.value
    inverted,             \* UiState.inverted
    is_window_open,       \* UiState.is_window_open
    is_initialized,       \* Local<bool> of ui_example_system
    rendered_texture_id,  \* Local<egui::TextureId> of ui_example_system
    textures,             \* EguiUserTextures: image handle -> user texture id
    last_texture_id,      \* EguiUserTextures: next id to hand out
    shapes,               \* what ui_content handed to the painter this frame
    shown,                \* what the image widget of line 271 resolved to
    ptr,                  \* history: the pointer response of the last frame
    rect_min,             \* history: rect.min of the last frame
    cycles,               \* history: press->release cycles since the last Clear
    incBase,              \* history: value set by the last slider drag
    incCount,             \* history: Increment clicks since the last slider drag
    run,                  \* history: consecutive frames with the same pointer response
    moves,                \* history: pointer positions seen in the current hold
    clear_dropped         \* history: Some(n) when the last frame's Clear dropped n polylines

vars == <<lines, stroke, value, inverted, is_window_open, is_initialized,
          rendered_texture_id, textures, last_texture_id, shapes, shown,
          ptr, rect_min, cycles, incBase, incCount, run, moves, clear_dropped>>

----------------------------------------------------------------------------
(* Bounds of the model *)

MaxLines == 3
MaxPts == 3
MaxValue == 12
MaxTexId == 4
MaxRun == 3
MixLines == 2
MixPts == 1
MixValue == 1
MixTexId == 3

(* Program constants *)

SliderMin == 0
SliderMax == 10
DefaultWidth == 1
FirstUserId == 0

----------------------------------------------------------------------------
(* Values *)

\* Option<T>: None is <<>>, Some(x) is <<x>>.
None == <<>>
Some(x) == <<x>>
IsSome(o) == o # <<>>
Unwrap(o) == o[1]

\* egui::Vec2 / Pos2 as <<x, y>>
VecSub(a, b) == <<a[1] - b[1], a[2] - b[2]>>
VecAdd(a, b) == <<a[1] + b[1], a[2] + b[2]>>

Images == [bevy_icon |-> "icon.png", bevy_icon_inverted |-> "icon_inverted.png"]
CubeImage == "view_image"

UserId(n) == [kind |-> "User", id |-> n]
DefaultTextureId == [kind |-> "Managed", id |-> 0]

DefaultStroke == [width |-> DefaultWidth, color |-> "LIGHT_BLUE"]
Strokes == {DefaultStroke, [width |-> DefaultWidth + 1, color |-> "RED"]}

----------------------------------------------------------------------------
(* Texture registry (bevy_egui's EguiUserTextures), at its interface *)

\* add_image: the existing id of a registered handle, else a fresh one.
AddImage(reg, h) ==
    IF h \in DOMAIN reg.textures
    THEN [textures |-> reg.textures, last_texture_id |-> reg.last_texture_id,
          id |-> UserId(reg.textures[h])]
    ELSE [textures |-> [x \in (DOMAIN reg.textures) \cup {h} |->
                          IF x = h THEN reg.last_texture_id ELSE reg.textures[x]],
          last_texture_id |-> reg.last_texture_id + 1,
          id |-> UserId(reg.last_texture_id)]

\* remove_image
RemoveImage(tex, h) == [x \in (DOMAIN tex) \ {h} |-> tex[x]]

\* Drawing a texture id: the image registered under it, or nothing.
Resolve(tex, tid) ==
    IF tid.kind = "User" /\ \E h \in DOMAIN tex : tex[h] = tid.id
    THEN Some(CHOOSE h \in DOMAIN tex : tex[h] = tid.id)
    ELSE None

----------------------------------------------------------------------------
(* Painting *)

\* Variant: Clear resets the whole Painting to its default, stroke included.
ui_control_ResetAll(s, inp) ==
    LET s1 == IF IsSome(inp.stroke) THEN [s EXCEPT !.stroke = Unwrap(inp.stroke)] ELSE s
    IN  IF inp.clear THEN [s1 EXCEPT !.lines = <<>>, !.stroke = DefaultStroke] ELSE s1

\* ui_control: the stroke editor and the "Clear Painting" button.
ui_control(s, inp) ==
    LET s1 == IF IsSome(inp.stroke) THEN [s EXCEPT !.stroke = Unwrap(inp.stroke)] ELSE s
    IN  IF inp.clear THEN [s1 EXCEPT !.lines = <<>>] ELSE s1

\* Variant: a release never starts a new polyline.
ContentLines_NeverClose(ls, pointer, min) ==
    LET l1 == IF ls = <<>> THEN << <<>> >> ELSE ls
        n == Len(l1)
        current_line == l1[n]
    IN  IF IsSome(pointer)
        THEN LET canvas_pos == VecSub(Unwrap(pointer), min)
             IN  IF current_line = <<>> \/ current_line[Len(current_line)] # canvas_pos
                 THEN [l1 EXCEPT ![n] = Append(current_line, canvas_pos)]
                 ELSE l1
        ELSE l1

\* Variant: every frame without the pointer starts a new polyline.
ContentLines_AlwaysClose(ls, pointer, min) ==
    LET l1 == IF ls = <<>> THEN << <<>> >> ELSE ls
        n == Len(l1)
        current_line == l1[n]
    IN  IF IsSome(pointer)
        THEN LET canvas_pos == VecSub(Unwrap(pointer), min)
             IN  IF current_line = <<>> \/ current_line[Len(current_line)] # canvas_pos
                 THEN [l1 EXCEPT ![n] = Append(current_line, canvas_pos)]
                 ELSE l1
        ELSE Append(l1, <<>>)

\* Variant: the point goes to the first polyline instead of the last.
ContentLines_AppendFirst(ls, pointer, min) ==
    LET l1 == IF ls = <<>> THEN << <<>> >> ELSE ls
        n == Len(l1)
        current_line == l1[n]
    IN  IF IsSome(pointer)
        THEN LET canvas_pos == VecSub(Unwrap(pointer), min)
             IN  IF l1[1] = <<>> \/ l1[1][Len(l1[1])] # canvas_pos
                 THEN [l1 EXCEPT ![1] = Append(l1[1], canvas_pos)]
                 ELSE l1
        ELSE IF current_line # <<>> THEN Append(l1, <<>>) ELSE l1

\* Variant: no comparison with the last point.
ContentLines_NoDedup(ls, pointer, min) ==
    LET l1 == IF ls = <<>> THEN << <<>> >> ELSE ls
        n == Len(l1)
        current_line == l1[n]
    IN  IF IsSome(pointer)
        THEN [l1 EXCEPT ![n] = Append(current_line, VecSub(Unwrap(pointer), min))]
        ELSE IF current_line # <<>> THEN Append(l1, <<>>) ELSE l1

\* ui_content, lines 373-386: the update of self.lines from the pointer.
ContentLines(ls, pointer, min) ==
    LET l1 == IF ls = <<>> THEN << <<>> >> ELSE ls
        n == Len(l1)
        current_line == l1[n]
    IN  IF IsSome(pointer)
        THEN LET canvas_pos == VecSub(Unwrap(pointer), min)
             IN  IF current_line = <<>> \/ current_line[Len(current_line)] # canvas_pos
                 THEN [l1 EXCEPT ![n] = Append(current_line, canvas_pos)]
                 ELSE l1
        ELSE IF current_line # <<>> THEN Append(l1, <<>>) ELSE l1

\* Variant: a lone point is drawn too.
IsDrawn_AtLeastOne(line) == Len(line) >= 1

\* The threshold of line 389.
IsDrawn(line) == Len(line) >= 2

\* ui_content, lines 388-393: one line shape per polyline that is drawn.
RECURSIVE PaintShapes(_, _, _, _)
PaintShapes(ls, i, min, st) ==
    IF i > Len(ls) THEN <<>>
    ELSE LET rest == PaintShapes(ls, i + 1, min, st)
         IN  IF IsDrawn(ls[i])
             THEN <<[points |-> [k \in 1..Len(ls[i]) |-> VecAdd(min, ls[i][k])],
                     stroke |-> st]>> \o rest
             ELSE rest

ui_content(s, inp) ==
    LET ls == ContentLines(s.lines, inp.ptr, inp.min)
    IN  [s EXCEPT !.lines = ls, !.shapes = PaintShapes(ls, 1, inp.min, s.stroke)]

----------------------------------------------------------------------------
(* ui_example_system *)

\* lines 214-217
InitStep(s) ==
    IF ~s.is_initialized
    THEN LET r == AddImage(s, Images.bevy_icon)
         IN  [s EXCEPT !.is_initialized = TRUE,
                       !.rendered_texture_id = r.id,
                       !.textures = r.textures,
                       !.last_texture_id = r.last_texture_id]
    ELSE s

\* line 259: the slider writes the value it is dragged to.
SliderStep(s, inp) ==
    IF IsSome(inp.slider) THEN [s EXCEPT !.value = Unwrap(inp.slider)] ELSE s

\* Variant: the increment clamps to the slider's range.
IncrementStep_Clamped(s) ==
    [s EXCEPT !.value = IF s.value + 1 > SliderMax THEN SliderMax ELSE s.value + 1]

\* lines 260-262
IncrementStep(s) == [s EXCEPT !.value = s.value + 1]

\* line 277
CheckboxStep(s) == [s EXCEPT !.is_window_open = ~s.is_window_open]

\* Variant: Invert sets the flag instead of flipping it.
InvertStep_SetTrue(s) == [s EXCEPT !.inverted = TRUE]

\* lines 325-327
InvertStep(s) == [s EXCEPT !.inverted = ~s.inverted]

\* Variant: the two branches swapped.
Selected_Swapped(inv) == IF inv THEN Images.bevy_icon ELSE Images.bevy_icon_inverted

\* lines 330-334: the handle the inverted flag selects.
Selected(inv) == IF inv THEN Images.bevy_icon_inverted ELSE Images.bevy_icon

\* lines 328-335
LoadStep(s) ==
    LET r == AddImage(s, Selected(s.inverted))
    IN  [s EXCEPT !.rendered_texture_id = r.id,
                  !.textures = r.textures,
                  !.last_texture_id = r.last_texture_id]

\* Variant: only the first handle is removed.
RemoveStep_OnlyIcon(s) ==
    [s EXCEPT !.textures = RemoveImage(s.textures, Images.bevy_icon)]

\* lines 336-339
RemoveStep(s) ==
    [s EXCEPT !.textures = RemoveImage(RemoveImage(s.textures, Images.bevy_icon),
                                       Images.bevy_icon_inverted)]

\* The whole system, in the order of the code.
ui_example_system(s, inp) ==
    LET s1 == InitStep(s)
        s2 == SliderStep(s1, inp)
        s3 == IF inp.increment THEN IncrementStep(s2) ELSE s2
        displayed == s3.rendered_texture_id
        s4 == IF inp.checkbox THEN CheckboxStep(s3) ELSE s3
        s5 == ui_control(s4, inp)
        s6 == ui_content(s5, inp)
        s7 == IF inp.invert THEN InvertStep(s6) ELSE s6
        s8 == IF inp.load \/ inp.invert THEN LoadStep(s7) ELSE s7
        s9 == IF inp.remove THEN RemoveStep(s8) ELSE s8
    IN  [s9 EXCEPT !.shown = Resolve(s9.textures, displayed)]

----------------------------------------------------------------------------
(* State machine *)

St == [lines |-> lines, stroke |-> stroke, value |-> value, inverted |-> inverted,
       is_window_open |-> is_window_open, is_initialized |-> is_initialized,
       rendered_texture_id |-> rendered_texture_id, textures |-> textures,
       last_texture_id |-> last_texture_id, shapes |-> shapes, shown |-> shown]

\* UiState::default, Painting::default, configure_ui_state_system, bevy_setup.
Init ==
    /\ lines = <<>>
    /\ stroke = DefaultStroke
    /\ value = 0
    /\ inverted = FALSE
    /\ is_window_open = TRUE
    /\ is_initialized = FALSE
    /\ rendered_texture_id = DefaultTextureId
    /\ textures = [x \in {CubeImage} |-> FirstUserId]
    /\ last_texture_id = FirstUserId + 1
    /\ shapes = <<>>
    /\ shown = None
    /\ ptr = None
    /\ rect_min = <<0, 0>>
    /\ cycles = 0
    /\ incBase = 0
    /\ incCount = 0
    /\ run = 0
    /\ moves = 0
    /\ clear_dropped = None

Origins == {<<0, 0>>, <<2, 1>>}
Offsets == {<<0, 0>>, <<1, 0>>}
SliderVals == {SliderMin, SliderMax}

NoInput(min) ==
    [slider |-> None, increment |-> FALSE, checkbox |-> FALSE, stroke |-> None,
     clear |-> FALSE, ptr |-> None, min |-> min, invert |-> FALSE, load |-> FALSE,
     remove |-> FALSE]

Pointers(min) == {None} \cup {Some(VecAdd(min, d)) : d \in Offsets}

PaintInputs ==
    UNION {{[NoInput(m) EXCEPT !.stroke = k, !.clear = c, !.ptr = p] :
               k \in {None} \cup {Some(x) : x \in Strokes},
               c \in BOOLEAN, p \in Pointers(m)} : m \in Origins}

PanelInputs ==
    {[NoInput(<<0, 0>>) EXCEPT !.slider = v, !.increment = i, !.checkbox = w,
                               !.invert = n, !.load = l, !.remove = r] :
        v \in {None} \cup {Some(x) : x \in SliderVals},
        i \in BOOLEAN, w \in BOOLEAN, n \in BOOLEAN, l \in BOOLEAN, r \in BOOLEAN}

\* Frames in which at most two of the buttons fire, the pointer away from the
\* canvas or held on its corner.
MixInputs ==
    {x \in {[NoInput(<<0, 0>>) EXCEPT !.increment = i, !.checkbox = w, !.clear = c,
                                      !.ptr = p, !.invert = n, !.load = l, !.remove = r] :
                i \in BOOLEAN, w \in BOOLEAN, c \in BOOLEAN, p \in {None, Some(<<0, 0>>)},
                n \in BOOLEAN, l \in BOOLEAN, r \in BOOLEAN} :
        Cardinality({k \in {"increment", "checkbox", "clear", "invert", "load", "remove"} :
                        x[k]}) <= 2}

Within(t, maxLines, maxPts, maxValue, maxTex) ==
    /\ Len(t.lines) <= maxLines
    /\ \A i \in 1..Len(t.lines) : Len(t.lines[i]) <= maxPts
    /\ t.value <= maxValue
    /\ t.last_texture_id <= maxTex + 1

\* The pointer response in canvas-local coordinates (line 380).
CanvasPos(pointer, min) ==
    IF IsSome(pointer) THEN Some(VecSub(Unwrap(pointer), min)) ELSE None

\* One frame: ui_example_system on the frame's inputs, and the history variables.
Frame(inp, t) ==
    /\ lines' = t.lines
    /\ stroke' = t.stroke
    /\ value' = t.value
    /\ inverted' = t.inverted
    /\ is_window_open' = t.is_window_open
    /\ is_initialized' = t.is_initialized
    /\ rendered_texture_id' = t.rendered_texture_id
    /\ textures' = t.textures
    /\ last_texture_id' = t.last_texture_id
    /\ shapes' = t.shapes
    /\ shown' = t.shown
    /\ ptr' = inp.ptr
    /\ rect_min' = inp.min
    /\ cycles' = IF inp.clear THEN 0
                 ELSE IF IsSome(ptr) /\ ~IsSome(inp.ptr) THEN cycles + 1 ELSE cycles
    /\ incBase' = IF IsSome(inp.slider) THEN Unwrap(inp.slider) ELSE incBase
    /\ incCount' = (IF IsSome(inp.slider) THEN 0 ELSE incCount)
                   + (IF inp.increment THEN 1 ELSE 0)
    /\ LET prev == CanvasPos(ptr, rect_min)
           cur == CanvasPos(inp.ptr, inp.min)
       IN  /\ run' = IF cur = prev /\ ~inp.clear /\ run > 0
                      THEN (IF run < MaxRun THEN run + 1 ELSE run)
                      ELSE 1
           /\ moves' = IF ~IsSome(cur) THEN 0
                        ELSE IF inp.clear \/ ~IsSome(prev) THEN 1
                        ELSE IF cur = prev THEN moves
                        ELSE moves + 1
    /\ clear_dropped' = IF inp.clear THEN Some(Len(lines)) ELSE None

PaintFrame ==
    \E inp \in PaintInputs :
        LET t == ui_example_system(St, inp)
        IN  Within(t, MaxLines, MaxPts, MaxValue, MaxTexId) /\ Frame(inp, t)

PanelFrame ==
    \E inp \in PanelInputs :
        LET t == ui_example_system(St, inp)
        IN  Within(t, MaxLines, MaxPts, MaxValue, MaxTexId) /\ Frame(inp, t)

MixFrame ==
    \E inp \in MixInputs :
        LET t == ui_example_system(St, inp)
        IN  Within(t, MixLines, MixPts, MixValue, MixTexId) /\ Frame(inp, t)

SpecPaint == Init /\ [][PaintFrame]_vars
SpecPanel == Init /\ [][PanelFrame]_vars
Next == MixFrame
Spec == Init /\ [][Next]_vars

----------------------------------------------------------------------------
(* Painting: properties *)

Last(q) == q[Len(q)]

\* All polylines except the last one.
ClosedCount == IF lines = <<>> THEN 0 ELSE Len(lines) - 1

\* The last polyline holds the points of a stroke in progress.
LastOpen == lines # <<>> /\ Last(lines) # <<>>

\* C1: with no Clear in between, the closed polylines (all but the last) are as
\* many as the press->release cycles seen so far, and the last polyline holds a
\* stroke in progress iff the pointer is held over the canvas in this frame.
C1_ClosedEqualsCycles ==
    /\ ClosedCount = cycles
    /\ LastOpen <=> IsSome(ptr)

\* Two drags completed and a third in progress.
C1_Witness == cycles = 2 /\ Len(lines) = 3 /\ IsSome(ptr) /\ Len(Last(lines)) >= 2

\* C2: a frame without Clear leaves every polyline before the last exactly as it
\* was, changes the last one at most by appending one point, and adds at most
\* one polyline, an empty one, after it.
C2_OnlyLastGrows ==
    \A inp \in PaintInputs :
        ~inp.clear /\ lines # <<>> =>
            LET t == ui_example_system(St, inp)
                n == Len(lines)
            IN  /\ Len(t.lines) \in {n, n + 1}
                /\ \A i \in 1..(n - 1) : t.lines[i] = lines[i]
                /\ \/ t.lines[n] = lines[n]
                   \/ /\ IsSome(inp.ptr)
                      /\ t.lines[n] = Append(lines[n], VecSub(Unwrap(inp.ptr), inp.min))
                      /\ Len(t.lines) = n
                /\ Len(t.lines) = n + 1 => t.lines[n + 1] = <<>> /\ t.lines[n] = lines[n]

\* A closed two-point polyline followed by a stroke in progress.
C2_Witness ==
    /\ Len(lines) >= 2
    /\ Len(lines[1]) >= 2
    /\ IsSome(ptr)
    /\ Len(Last(lines)) >= 2

NoEqualNeighbours ==
    \A i \in 1..Len(lines) :
        \A k \in 1..(Len(lines[i]) - 1) : lines[i][k] # lines[i][k + 1]

\* C3: a frame whose canvas-local pointer position equals the last point of the
\* open polyline leaves the polylines as they are; while the pointer is held the
\* open polyline has one point per position the pointer took, however many
\* frames it rested there; no polyline has two equal consecutive points.
C3_Dedup ==
    /\ NoEqualNeighbours
    /\ IsSome(ptr) => Len(Last(lines)) = moves
    /\ \A inp \in PaintInputs :
          (/\ ~inp.clear
           /\ LastOpen
           /\ CanvasPos(inp.ptr, inp.min) = Some(Last(Last(lines))))
          => ui_example_system(St, inp).lines = lines

\* The pointer rested on one position for MaxRun frames: the point is there once.
C3_Witness ==
    /\ IsSome(ptr)
    /\ run = MaxRun
    /\ Len(Last(lines)) = 1
    /\ moves = 1

\* C4: Clear in ui_control leaves no polyline at all, whatever was there, and
\* does not touch the stroke; after the frame nothing drawn before it is left
\* (the one polyline there is holds at most this frame's pointer position).
C4_ClearEmpties ==
    /\ \A inp \in PaintInputs :
          inp.clear =>
              /\ ui_control(St, inp).lines = <<>>
              /\ ~IsSome(inp.stroke) => ui_control(St, inp).stroke = stroke
    /\ IsSome(clear_dropped) =>
          /\ Len(lines) = 1
          /\ lines[1] = (IF IsSome(ptr) THEN <<Unwrap(CanvasPos(ptr, rect_min))>> ELSE <<>>)
          /\ shapes = <<>>

\* Clear fired on three polylines while the stroke was not the default one.
C4_Witness ==
    /\ clear_dropped = Some(MaxLines)
    /\ stroke # DefaultStroke
    /\ Len(lines) = 1

\* The indices of the polylines with at least two points.
Visible == {i \in 1..Len(lines) : Len(lines[i]) >= 2}

\* The k-th polyline, in sequence order, among those.
KthVisible(k) == CHOOSE i \in Visible : Cardinality({j \in Visible : j <= i}) = k

\* The segments of a line strip.
Segments(shape) == Len(shape.points) - 1

\* C5: the painter gets one line strip per polyline of two or more points and
\* none for the others, in the order of the polylines; the strip of a polyline
\* of len points has len - 1 segments and its points are the polyline's, each
\* translated by the canvas origin.
C5_DrawnOutput ==
    /\ Len(shapes) = Cardinality(Visible)
    /\ \A k \in 1..Len(shapes) :
          LET i == KthVisible(k)
          IN  /\ Segments(shapes[k]) = Len(lines[i]) - 1
              /\ \A j \in 1..Len(lines[i]) :
                    shapes[k].points[j] = VecAdd(rect_min, lines[i][j])

\* Two drawn polylines with a lone point between them, away from the origin <<0, 0>>.
C5_Witness ==
    /\ Len(lines) = 3
    /\ Len(lines[1]) >= 2
    /\ Len(lines[2]) = 1
    /\ Len(lines[3]) >= 2
    /\ Len(shapes) = 2
    /\ rect_min # <<0, 0>>

\* C10: after every frame the sequence of polylines is non-empty and only its
\* last polyline may be empty; a frame without pointer that follows one without
\* pointer adds nothing.
C10_OnlyLastEmpty ==
    /\ is_initialized =>
          /\ lines # <<>>
          /\ \A i \in 1..(Len(lines) - 1) : lines[i] # <<>>
    /\ \A inp \in PaintInputs :
          (is_initialized /\ ~IsSome(ptr) /\ ~IsSome(inp.ptr) /\ ~inp.clear)
          => ui_example_system(St, inp).lines = lines

\* Several frames without the pointer after a completed drag: one empty polyline.
C10_Witness ==
    /\ ~IsSome(ptr)
    /\ run = MaxRun
    /\ Len(lines) = 2
    /\ lines[2] = <<>>
    /\ clear_dropped = None

----------------------------------------------------------------------------
(* Panel: properties *)

\* The ids the registry holds.
Issued(tex) == {tex[h] : h \in DOMAIN tex}

\* The image variant a value of the inverted flag stands for.
Variant(flag) == IF flag THEN "icon_inverted.png" ELSE "icon.png"

\* C6: each Increment adds exactly 1 and nothing clamps it: the value is the
\* value the slider last set (0 at the start) plus the number of Increment
\* clicks since, also above the slider's upper end.
C6_IncrementAddsOne ==
    /\ value = incBase + incCount
    /\ \A inp \in PanelInputs :
          inp.increment /\ ~IsSome(inp.slider)
          => ui_example_system(St, inp).value = value + 1

\* Eleven clicks from 0: the value is 11, above the slider's range.
C6_Witness == incBase = 0 /\ incCount = SliderMax + 1 /\ value = SliderMax + 1

\* C7: after a frame in which Load or Invert fired, the inverted flag is flipped
\* iff Invert fired and the stored texture id is the one the registry holds for
\* the image the flag selects; a frame without Remove leaves every registered
\* handle its id, and the registry hands out one new id per handle it did not
\* hold, none otherwise. With Remove in the same frame the stored id is still
\* the id the registry returned for that image before Remove took it away.
C7_LoadResolvesSelected ==
    /\ \A inp \in PanelInputs :
          LET t == ui_example_system(St, inp)
              before == InitStep(St)
          IN  /\ (inp.load \/ inp.invert) =>
                    t.rendered_texture_id =
                        (IF Variant(t.inverted) \in DOMAIN before.textures
                         THEN UserId(before.textures[Variant(t.inverted)])
                         ELSE UserId(before.last_texture_id))
              /\ (inp.load \/ inp.invert) /\ ~inp.remove =>
                    /\ t.inverted = (inverted # inp.invert)
                    /\ Variant(t.inverted) \in DOMAIN t.textures
                    /\ t.rendered_texture_id = UserId(t.textures[Variant(t.inverted)])
              /\ ~inp.remove =>
                    /\ \A h \in DOMAIN textures :
                          h \in DOMAIN t.textures /\ t.textures[h] = textures[h]
                    /\ t.last_texture_id - last_texture_id
                          = Cardinality((DOMAIN t.textures) \ (DOMAIN textures))
    /\ Cardinality(Issued(textures)) = Cardinality(DOMAIN textures)

\* Inverted, both images registered, the inverted image's id stored and shown.
C7_Witness ==
    /\ inverted
    /\ Images.bevy_icon \in DOMAIN textures
    /\ Images.bevy_icon_inverted \in DOMAIN textures
    /\ rendered_texture_id = UserId(textures[Images.bevy_icon_inverted])
    /\ shown = Some(Images.bevy_icon_inverted)

\* C8: a frame in which Remove fired leaves neither image registered, and the
\* stored texture id and the inverted flag are what the same frame without
\* Remove leaves; an image widget given an id no image is registered under
\* shows nothing, and what it shows otherwise is a registered image.
C8_RemoveKeepsStaleId ==
    /\ \A inp \in PanelInputs :
          LET t == ui_example_system(St, inp)
              u == ui_example_system(St, [inp EXCEPT !.remove = FALSE])
              displayed == InitStep(St).rendered_texture_id
          IN  /\ inp.remove =>
                    /\ Images.bevy_icon \notin DOMAIN t.textures
                    /\ Images.bevy_icon_inverted \notin DOMAIN t.textures
                    /\ t.rendered_texture_id = u.rendered_texture_id
                    /\ t.inverted = u.inverted
                    /\ t.last_texture_id = u.last_texture_id
              /\ displayed.id \notin Issued(t.textures) => t.shown = None
    /\ IsSome(shown) => Unwrap(shown) \in DOMAIN textures

\* After Invert and Remove: the stored id is stale and the widget shows nothing.
C8_Witness ==
    /\ is_initialized
    /\ inverted
    /\ Images.bevy_icon \notin DOMAIN textures
    /\ Images.bevy_icon_inverted \notin DOMAIN textures
    /\ rendered_texture_id.kind = "User"
    /\ rendered_texture_id.id \notin Issued(textures)
    /\ shown = None

----------------------------------------------------------------------------
(* The UI actions as mutations of the state they write *)

Actions == {"increment", "invert", "load", "remove", "clear", "checkbox"}

\* The frame input in which exactly one action fires.
Only(a) ==
    [NoInput(<<0, 0>>) EXCEPT !.increment = (a = "increment"), !.invert = (a = "invert"),
                              !.load = (a = "load"), !.remove = (a = "remove"),
                              !.clear = (a = "clear"), !.checkbox = (a = "checkbox")]

\* What one action does to the state, as ui_example_system applies it.
Apply(a, s) ==
    CASE a = "increment" -> IncrementStep(s)
      [] a = "invert" -> LoadStep(InvertStep(s))
      [] a = "load" -> LoadStep(s)
      [] a = "remove" -> RemoveStep(s)
      [] a = "clear" -> ui_control(s, Only(a))
      [] a = "checkbox" -> CheckboxStep(s)

\* The state the actions write: UiState, the system's locals and the registry
\* (not what the frame hands to the painter and to the image widget).
Session(s) ==
    [lines |-> s.lines, stroke |-> s.stroke, value |-> s.value, inverted |-> s.inverted,
     is_window_open |-> s.is_window_open, is_initialized |-> s.is_initialized,
     rendered_texture_id |-> s.rendered_texture_id, textures |-> s.textures,
     last_texture_id |-> s.last_texture_id]

\* One frame in which only a fires, and two such frames.
Once(a) == ui_example_system(St, Only(a))
Twice(a) == ui_example_system(Once(a), Only(a))

IdempotentActions == {"load", "remove", "clear"}
RegistryActions == {"invert", "load", "remove"}

\* C9 as stated: every action is idempotent over frames, and any two actions
\* give the same state in either order.
C9_IdempotentIndependent ==
    /\ \A a \in Actions : Session(Twice(a)) = Session(Once(a))
    /\ \A a \in Actions : \A b \in Actions \ {a} :
          Session(Apply(a, Apply(b, St))) = Session(Apply(b, Apply(a, St)))

\* C9 amended: Load, Remove and Clear are idempotent over frames; Increment,
\* Invert and the checkbox are not (a second frame adds 1 again, flips the flag
\* back); two different actions give the same state in either order unless both
\* are among Invert, Load and Remove, which the frame applies in that order.
C9_Amended ==
    /\ \A a \in IdempotentActions : Session(Twice(a)) = Session(Once(a))
    /\ Twice("increment").value = Once("increment").value + 1
    /\ Twice("invert").inverted = ~Once("invert").inverted
    /\ Twice("checkbox").is_window_open = ~Once("checkbox").is_window_open
    /\ \A a \in Actions : \A b \in Actions \ {a} :
          ~({a, b} \subseteq RegistryActions) =>
              Session(Apply(a, Apply(b, St))) = Session(Apply(b, Apply(a, St)))
    /\ \A inp \in MixInputs :
          Session(ui_example_system(St, inp)).textures =
              LET s1 == InitStep(St)
                  s2 == IF inp.invert THEN Apply("invert", s1)
                        ELSE IF inp.load THEN Apply("load", s1) ELSE s1
                  s3 == IF inp.remove THEN Apply("remove", s2) ELSE s2
              IN  s3.textures

\* A state in which every action has something to change: polylines to clear,
\* a value above 0, and no image registered, so that Load allocates an id.
C9_Witness ==
    /\ is_initialized
    /\ Len(lines) >= 2
    /\ value >= 1
    /\ inverted
    /\ Images.bevy_icon \notin DOMAIN textures
    /\ Images.bevy_icon_inverted \notin DOMAIN textures

====
